---- MODULE Spec2Model ----
(***************************************************************************)
(* supervisor-alert: the event-listener loop of supervisor_alert.py and    *)
(* its two alert backends (telegram, send).                                *)
(*                                                                         *)
(* Python strings are sequences of one-character strings, so that          *)
(* startswith, slicing, lower, split and int are computed and not assumed. *)
(* A Python exception leaving a function is the value of an "exc" field;   *)
(* an exception leaving main() ends the process (pc = "raised").           *)
(***************************************************************************)
EXTENDS Integers, Sequences, FiniteSets, TLC

VARIABLES
    pc,            \* position of main(): see PcValues
    args,          \* argparse namespace (line 40)
    alert,         \* the selected backend callable (lines 49-54)
    command,       \* argv prefix bound into send by partial (line 52)
    excluded,      \* set of excluded process names (lines 56-59)
    headers,       \* headers returned by listener.wait() (line 62)
    payload,       \* payload returned by listener.wait() (line 62)
    event_name,    \* local of the loop body (lines 63, 67)
    success,       \* local of the loop body (lines 64, 74)
    message,       \* local of the loop body (lines 70, 72)
    process_name,  \* local of the loop body (line 69)
    out,           \* everything written to the process's stdout, in order
    nRead,         \* number of events listener.wait() has returned
    decoded,       \* this turn: get_headers(payload) was called (line 68)
    calls,         \* this turn: subprocesses started by check_call, in order
    nAlert,        \* this turn: number of calls of alert(message=...) (line 74)
    ret,           \* this turn: how alert() ended: "none", "true", "false", "raised"
    error          \* the exception that left main(), "none" while it runs

vars == <<pc, args, alert, command, excluded, headers, payload, event_name,
          success, message, process_name, out, nRead, decoded, calls, nAlert, ret,
          error>>

\* ------------------------------------------------------------------ bounds
\* number of events the parent sends before the exploration stops
MaxEvents == 2

\* ------------------------------------------------------- program constants
s == <<"P", "R", "O", "C", "E", "S", "S", "_", "S", "T", "A", "T", "E", "_">>
HAS_ENTERED_STATE == <<" ", "h", "a", "s", " ", "e", "n", "t", "e", "r", "e", "d", " ", "s", "t", "a", "t", "e", " ">>
COLON_SPACE == <<":", " ">>
hostname == <<"h", "1">>
TELEGRAM_SEND == <<"t", "e", "l", "e", "g", "r", "a", "m", "-", "s", "e", "n", "d">>
HOME == <<"/", "h">>
LOCAL_BIN_TELEGRAM_SEND == <<"/", ".", "l", "o", "c", "a", "l", "/", "b", "i", "n", "/", "t", "e", "l", "e", "g", "r", "a", "m", "-", "s", "e", "n", "d">>
telegram_conf_args ==
    << <<"-", "-", "c", "o", "n", "f", "i", "g">>,
       <<"/", "e", "t", "c", "/", "t", "e", "l", "e", "g", "r", "a", "m", "-", "s", "e", "n", "d", ".", "c", "o", "n", "f">> >>
K_eventname == <<"e", "v", "e", "n", "t", "n", "a", "m", "e">>
K_len == <<"l", "e", "n">>
K_processname == <<"p", "r", "o", "c", "e", "s", "s", "n", "a", "m", "e">>

None == <<"None">>

\* --------------------------------------------------------- string helpers
Whitespace == {" ", "\n", "\t"}

Digits == {"0", "1", "2", "3", "4", "5", "6", "7", "8", "9"}

DigitValue(c) ==
    CASE c = "0" -> 0 [] c = "1" -> 1 [] c = "2" -> 2 [] c = "3" -> 3 [] c = "4" -> 4
      [] c = "5" -> 5 [] c = "6" -> 6 [] c = "7" -> 7 [] c = "8" -> 8 [] c = "9" -> 9

DigitChar(d) ==
    CASE d = 0 -> "0" [] d = 1 -> "1" [] d = 2 -> "2" [] d = 3 -> "3" [] d = 4 -> "4"
      [] d = 5 -> "5" [] d = 6 -> "6" [] d = 7 -> "7" [] d = 8 -> "8" [] d = 9 -> "9"

Uppercase ==
    {"A", "B", "C", "D", "E", "F", "G", "H", "I", "J", "K", "L", "M",
     "N", "O", "P", "Q", "R", "S", "T", "U", "V", "W", "X", "Y", "Z"}

UpperToLower ==
    [c \in Uppercase |->
        CASE c = "A" -> "a" [] c = "B" -> "b" [] c = "C" -> "c" [] c = "D" -> "d" [] c = "E" -> "e"
          [] c = "F" -> "f" [] c = "G" -> "g" [] c = "H" -> "h" [] c = "I" -> "i" [] c = "J" -> "j"
          [] c = "K" -> "k" [] c = "L" -> "l" [] c = "M" -> "m" [] c = "N" -> "n" [] c = "O" -> "o"
          [] c = "P" -> "p" [] c = "Q" -> "q" [] c = "R" -> "r" [] c = "S" -> "s" [] c = "T" -> "t"
          [] c = "U" -> "u" [] c = "V" -> "v" [] c = "W" -> "w" [] c = "X" -> "x" [] c = "Y" -> "y"
          [] c = "Z" -> "z"]

\* str.lower()
lower(str) ==
    [i \in 1..Len(str) |-> IF str[i] \in DOMAIN UpperToLower THEN UpperToLower[str[i]] ELSE str[i]]

\* str.startswith(prefix)
startswith(str, prefix) ==
    /\ Len(prefix) <= Len(str)
    /\ SubSeq(str, 1, Len(prefix)) = prefix

\* str[n:]
SliceFrom(str, n) == SubSeq(str, n + 1, Len(str))

\* str.split(sep) for a one-character separator: empty parts are kept
RECURSIVE split(_, _)
split(str, sep) ==
    IF \A i \in 1..Len(str) : str[i] # sep
    THEN <<str>>
    ELSE LET i == CHOOSE k \in 1..Len(str) :
                      str[k] = sep /\ \A j \in 1..(k - 1) : str[j] # sep
         IN  <<SubSeq(str, 1, i - 1)>> \o split(SubSeq(str, i + 1, Len(str)), sep)

\* str.split() without argument: runs of whitespace separate, no empty parts
split_ws(str) ==
    LET norm == [i \in 1..Len(str) |-> IF str[i] \in Whitespace THEN " " ELSE str[i]]
        NonEmpty(part) == part # <<>>
    IN  SelectSeq(split(norm, " "), NonEmpty)

\* int(str) for the inputs of this model: decimal digits or ValueError
RECURSIVE DigitsValue(_)
DigitsValue(str) ==
    IF str = <<>> THEN 0
    ELSE 10 * DigitsValue(SubSeq(str, 1, Len(str) - 1)) + DigitValue(str[Len(str)])

\* an int() that reads anything that is not a number as 0
int_lenient(str) ==
    IF str # <<>> /\ \A i \in 1..Len(str) : str[i] \in Digits
    THEN [exc |-> "none", value |-> DigitsValue(str)]
    ELSE [exc |-> "none", value |-> 0]

int(str) ==
    IF str # <<>> /\ \A i \in 1..Len(str) : str[i] \in Digits
    THEN [exc |-> "none", value |-> DigitsValue(str)]
    ELSE [exc |-> "ValueError", value |-> 0]

\* supervisor.childutils.get_headers: dict([x.split(':') for x in line.split()])
\* dict() raises ValueError on an element that is not a pair; a later pair
\* with the same key replaces an earlier one.
get_headers(line) ==
    LET pairs == [i \in 1..Len(split_ws(line)) |-> split(split_ws(line)[i], ":")]
        keys  == {pairs[i][1] : i \in 1..Len(pairs)}
        LastIndex(k) == CHOOSE i \in 1..Len(pairs) :
                            pairs[i][1] = k /\ \A j \in (i + 1)..Len(pairs) : pairs[j][1] # k
    IN  IF \E i \in 1..Len(pairs) : Len(pairs[i]) # 2
        THEN [exc |-> "ValueError", dict |-> <<>>]
        ELSE [exc |-> "none", dict |-> [k \in keys |-> pairs[LastIndex(k)][2]]]

\* ------------------------------------------------------------ inputs
\* command lines given to the program
UserCommand == <<"m", "a", "i", "l", " ", "-", "s">>
X_WEB == <<"w", "e", "b">>
X_WEB_DB == <<"w", "e", "b", ",", "d", "b">>

ArgsSet ==
    [telegram : BOOLEAN, command : {None, UserCommand}, configure : BOOLEAN,
     show_hostname : BOOLEAN, exclude : {None, X_WEB, X_WEB_DB}]

\* eventname headers sent by the parent
N_EXITED == <<"P", "R", "O", "C", "E", "S", "S", "_", "S", "T", "A", "T", "E", "_", "E", "X", "I", "T", "E", "D">>
N_FATAL == <<"P", "R", "O", "C", "E", "S", "S", "_", "S", "T", "A", "T", "E", "_", "F", "a", "t", "a", "l">>
N_BARE == <<"P", "R", "O", "C", "E", "S", "S", "_", "S", "T", "A", "T", "E", "_">>
N_NOUNDERSCORE == <<"P", "R", "O", "C", "E", "S", "S", "_", "S", "T", "A", "T", "E">>
N_TICK == <<"T", "I", "C", "K", "_", "5">>
N_LOWER == <<"p", "r", "o", "c", "e", "s", "s", "_", "s", "t", "a", "t", "e", "_", "e", "x", "i", "t", "e", "d">>

EventNames == {N_EXITED, N_FATAL, N_BARE, N_NOUNDERSCORE, N_TICK, N_LOWER}

\* payloads sent by the parent
P_WEB == <<"p", "r", "o", "c", "e", "s", "s", "n", "a", "m", "e", ":", "w", "e", "b", " ", "p", "i", "d", ":", "4">>
P_DB == <<"p", "i", "d", ":", "4", " ", "p", "r", "o", "c", "e", "s", "s", "n", "a", "m", "e", ":", "d", "b">>
P_DUP == <<"p", "r", "o", "c", "e", "s", "s", "n", "a", "m", "e", ":", "d", "b", " ", "p", "r", "o", "c", "e", "s", "s", "n", "a", "m", "e", ":", "w", "e", "b">>
P_NONAME == <<"p", "i", "d", ":", "4">>
P_NOPAIR == <<"p", "r", "o", "c", "e", "s", "s", "n", "a", "m", "e">>
P_TRIPLE == <<"p", "r", "o", "c", "e", "s", "s", "n", "a", "m", "e", ":", "w", "e", "b", ":", "1">>
P_EMPTY == <<>>

Payloads == {P_WEB, P_DB, P_DUP, P_NONAME, P_NOPAIR, P_TRIPLE, P_EMPTY}

\* header lines with broken framing
L_EMPTY == <<>>
L_NOLEN == <<"e", "v", "e", "n", "t", "n", "a", "m", "e", ":", "T", "I", "C", "K", "_", "5", "\n">>
L_BADLEN == <<"e", "v", "e", "n", "t", "n", "a", "m", "e", ":", "P", "R", "O", "C", "E", "S", "S", "_", "S", "T", "A", "T", "E", "_", "E", "X", "I", "T", "E", "D", " ", "l", "e", "n", ":", "x", "\n">>
L_NONAME == <<"l", "e", "n", ":", "0", "\n">>
L_NOPAIR == <<"e", "v", "e", "n", "t", "n", "a", "m", "e", " ", "l", "e", "n", ":", "0", "\n">>

\* decimal rendering of a length, as the parent writes the len header
RECURSIVE IntToStr(_)
IntToStr(n) ==
    IF n < 10 THEN <<DigitChar(n)>> ELSE IntToStr(n \div 10) \o <<DigitChar(n % 10)>>

\* the header line the parent writes for an event with this name and payload
HeaderLine(name, body) ==
    K_eventname \o <<":">> \o name \o <<" ">> \o K_len \o <<":">> \o IntToStr(Len(body)) \o <<"\n">>

\* what the parent puts on stdin for one notification: a line, then the payload
StdinEvents ==
    {[line |-> HeaderLine(name, body), body |-> body] : name \in EventNames, body \in Payloads}
    \cup {[line |-> l, body |-> <<>>] : l \in {L_EMPTY, L_NOLEN, L_BADLEN, L_NONAME, L_NOPAIR}}

\* how a subprocess started by check_call can end
Outcomes == {"exit0", "nonzero", "OSError"}

\* ----------------------------------------------------------- the program
PcValues == {"main", "loop", "wait", "turn", "alert", "fallback", "result", "returned", "raised"}

READY_FOR_EVENTS_TOKEN == "READY\n"

RESULT_OK == "RESULT 2\nOK"

RESULT_FAIL == "RESULT 4\nFAIL"

EngineWrite(data) == [by |-> "engine", data |-> data]

ChildWrite == [by |-> "child", data |-> "output"]

Init ==
    /\ pc = "main"
    /\ args \in ArgsSet
    /\ alert = "unbound"
    /\ command = None
    /\ excluded = {}
    /\ headers = <<>>
    /\ payload = <<>>
    /\ event_name = None
    /\ success = TRUE
    /\ message = None
    /\ process_name = None
    /\ out = <<>>
    /\ nRead = 0
    /\ decoded = FALSE
    /\ calls = <<>>
    /\ nAlert = 0
    /\ ret = "none"
    /\ error = "none"

\* bool(x) of an optional string argument: None and "" are false
Truthy(x) == x # None /\ x # <<>>

\* shlex.split for command lines without quotes or escapes
shlex_split(str) == split_ws(str)

\* lines 56-59
ExcludedOf(a) ==
    IF Truthy(a.exclude)
    THEN {split(a.exclude, ",")[i] : i \in 1..Len(split(a.exclude, ","))}
    ELSE {}

\* a selection that prefers the user's command to the relay
SelectBackend_commandFirst(a) ==
    IF Truthy(a.command) THEN "send" ELSE IF a.telegram THEN "telegram" ELSE "none"

\* a selection that falls back to the relay when nothing is given
SelectBackend_default(a) ==
    IF a.telegram THEN "telegram" ELSE IF Truthy(a.command) THEN "send" ELSE "telegram"

\* lines 49-54: which backend the arguments select; "none" raises at line 54
SelectBackend(a) ==
    IF a.telegram THEN "telegram" ELSE IF Truthy(a.command) THEN "send" ELSE "none"

\* lines 40-59: argument handling up to the loop. configure() either returns
\* or raises; in both cases main() is left at line 43.
ParseArgs ==
    /\ pc = "main"
    /\ IF args.configure
       THEN /\ \/ pc' = "returned" /\ error' = "none"
               \/ pc' = "raised" /\ error' = "Exception"
            /\ UNCHANGED <<alert, command, excluded>>
       ELSE IF SelectBackend(args) = "telegram"
       THEN /\ alert' = "telegram"
            /\ excluded' = ExcludedOf(args)
            /\ pc' = "loop"
            /\ UNCHANGED <<command, error>>
       ELSE IF SelectBackend(args) = "send"
       THEN /\ alert' = "send"
            /\ command' = shlex_split(args.command)
            /\ excluded' = ExcludedOf(args)
            /\ pc' = "loop"
            /\ UNCHANGED error
       ELSE /\ pc' = "raised"
            /\ error' = "Exception"
            /\ UNCHANGED <<alert, command, excluded>>
    /\ UNCHANGED <<args, headers, payload, event_name, success, message, process_name,
                   out, nRead, decoded, calls, nAlert, ret>>

\* a ready() that is called but whose token never reaches the stream
ready_lost(stdout) == stdout

\* a ready() that writes its token twice
ready_twice(stdout) ==
    Append(Append(stdout, EngineWrite(READY_FOR_EVENTS_TOKEN)), EngineWrite(READY_FOR_EVENTS_TOKEN))

\* listener.ready(): the stream after the token is written and flushed
ready(stdout) == Append(stdout, EngineWrite(READY_FOR_EVENTS_TOKEN))

\* line 62, first half of listener.wait(): self.ready(stdout)
Ready ==
    /\ pc = "loop"
    /\ nRead < MaxEvents
    /\ out' = ready(out)
    /\ pc' = "wait"
    /\ UNCHANGED <<args, alert, command, excluded, headers, payload, event_name, success,
                   message, process_name, nRead, decoded, calls, nAlert, ret, error>>

\* line 62, second half of listener.wait(): readline, get_headers,
\* stdin.read(int(headers['len']))
wait(ev) ==
    LET h == get_headers(ev.line) IN
    IF h.exc # "none" THEN [exc |-> h.exc, headers |-> <<>>, payload |-> <<>>]
    ELSE IF K_len \notin DOMAIN h.dict THEN [exc |-> "KeyError", headers |-> <<>>, payload |-> <<>>]
    ELSE IF int(h.dict[K_len]).exc # "none"
    THEN [exc |-> int(h.dict[K_len]).exc, headers |-> <<>>, payload |-> <<>>]
    ELSE LET n == int(h.dict[K_len]).value IN
         [exc |-> "none", headers |-> h.dict,
          payload |-> SubSeq(ev.body, 1, IF n < Len(ev.body) THEN n ELSE Len(ev.body))]

\* every way listener.wait() can end on the inputs of this model
WaitResults == {wait(ev) : ev \in StdinEvents}

Wait ==
    /\ pc = "wait"
    /\ \E r \in WaitResults :
         IF r.exc # "none"
         THEN /\ pc' = "raised"
              /\ error' = r.exc
              /\ UNCHANGED <<headers, payload, nRead, decoded, calls, nAlert, ret>>
         ELSE /\ headers' = r.headers
              /\ payload' = r.payload
              /\ nRead' = nRead + 1
              /\ decoded' = FALSE
              /\ calls' = <<>>
              /\ nAlert' = 0
              /\ ret' = "none"
              /\ pc' = "turn"
              /\ UNCHANGED error
    /\ UNCHANGED <<args, alert, command, excluded, event_name, success, message,
                   process_name, out>>

\* a prefix test that ignores case
IsTransition_nocase(en) == startswith(lower(en), lower(s))

\* line 66: event_name.startswith(s)
IsTransition(en) == startswith(en, s)

\* an exclusion test that never excludes
ShouldAlert_always(name, excl) == TRUE

\* line 73: the exclusion test
ShouldAlert(name, excl) == name \notin excl

\* a message that carries the hostname whatever the flag says
Message_prefixed(name, state, show) == hostname \o COLON_SPACE \o name \o HAS_ENTERED_STATE \o state

\* lines 70-72: the message text
Message(name, state, show) ==
    LET m70 == name \o HAS_ENTERED_STATE \o state
    IN  IF show THEN hostname \o COLON_SPACE \o m70 ELSE m70

\* a success flag that is left as the previous turn set it
success_stale(prev) == prev

\* line 64: success = True at the start of every turn
success_reset(prev) == TRUE

\* lines 63-73: the loop body from the eventname lookup to the exclusion test.
\* The result names the exception that leaves the body ("none" if none), the
\* locals as they stand at that point, and whether line 74 is reached.
body(hd, pl, a, excl, old) ==
    IF K_eventname \notin DOMAIN hd
    THEN [old EXCEPT !.exc = "KeyError"]
    ELSE
    LET en == hd[K_eventname] IN
    IF ~IsTransition(en)
    THEN [old EXCEPT !.event_name = en, !.success = success_reset(old.success)]
    ELSE
    LET state == lower(SliceFrom(en, Len(s)))
        data  == get_headers(pl)
        at67  == [old EXCEPT !.event_name = state, !.success = success_reset(old.success),
                             !.decoded = TRUE]
    IN
    IF data.exc # "none"
    THEN [at67 EXCEPT !.exc = data.exc]
    ELSE IF K_processname \notin DOMAIN data.dict
    THEN [at67 EXCEPT !.exc = "KeyError"]
    ELSE
    LET name == data.dict[K_processname]
    IN  [at67 EXCEPT !.process_name = name, !.message = Message(name, state, a.show_hostname),
                     !.dispatch = ShouldAlert(name, excl)]

Turn ==
    /\ pc = "turn"
    /\ LET r == body(headers, payload, args, excluded,
                     [exc |-> "none", event_name |-> event_name, success |-> success,
                      decoded |-> FALSE, process_name |-> process_name,
                      message |-> message, dispatch |-> FALSE])
       IN  /\ event_name' = r.event_name
           /\ success' = r.success
           /\ decoded' = r.decoded
           /\ process_name' = r.process_name
           /\ message' = r.message
           /\ error' = r.exc
           /\ pc' = IF r.exc # "none" THEN "raised"
                    ELSE IF r.dispatch THEN "alert" ELSE "result"
    /\ UNCHANGED <<args, alert, command, excluded, headers, payload, out, nRead,
                   calls, nAlert, ret>>

\* subprocess.check_call: the exception it raises for an outcome of the child
check_call(outcome) ==
    CASE outcome = "exit0"   -> "none"
      [] outcome = "nonzero" -> "CalledProcessError"
      [] outcome = "OSError" -> "OSError"

\* The child is started without redirection (lines 85, 89, 98), so it inherits
\* the listener's stdout: a child that ran may have written to it.
Spawn(argv, outcome, wrote) ==
    /\ calls' = Append(calls, [argv |-> argv, outcome |-> outcome])
    /\ wrote \in (IF outcome = "OSError" THEN {FALSE} ELSE BOOLEAN)
    /\ out' = IF wrote THEN Append(out, ChildWrite) ELSE out

\* a dispatcher that is called again when it reported a failure
Return_retry(v) ==
    /\ success' = v
    /\ ret' = IF v THEN "true" ELSE "false"
    /\ error' = "none"
    /\ pc' = IF v \/ nAlert >= 2 THEN "result" ELSE "alert"

\* alert() returned value v to line 74
Return(v) ==
    /\ success' = v
    /\ ret' = IF v THEN "true" ELSE "false"
    /\ error' = "none"
    /\ pc' = "result"

\* alert() raised exc, which nothing in main() catches
Raise(exc) ==
    /\ ret' = "raised"
    /\ error' = exc
    /\ pc' = "raised"
    /\ UNCHANGED success

\* lines 95-101 called from line 74: send(command, message)
send(outcome) ==
    CASE check_call(outcome) = "none"               -> [exc |-> "none", value |-> TRUE]
      [] check_call(outcome) = "CalledProcessError" -> [exc |-> "none", value |-> FALSE]
      [] OTHER                                      -> [exc |-> check_call(outcome), value |-> FALSE]

Send ==
    /\ pc = "alert"
    /\ alert = "send"
    /\ nAlert' = nAlert + 1
    /\ \E outcome \in Outcomes, wrote \in BOOLEAN :
         /\ Spawn(command \o <<message>>, outcome, wrote)
         /\ IF send(outcome).exc = "none"
            THEN Return(send(outcome).value)
            ELSE Raise(send(outcome).exc)
    /\ UNCHANGED <<args, alert, command, excluded, headers, payload, event_name,
                   message, process_name, nRead, decoded>>

\* a try body whose fallback is entered on any failure of the primary
telegram_try_any(outcome) ==
    IF check_call(outcome) = "none"
    THEN [next |-> "return", value |-> TRUE]
    ELSE [next |-> "fallback", value |-> FALSE]

\* lines 84-87, 91-92 called from line 74: the try body of telegram(message).
\* "fallback" means the OSError handler (line 87) was entered.
telegram_try(outcome) ==
    CASE check_call(outcome) = "none"               -> [next |-> "return", value |-> TRUE]
      [] check_call(outcome) = "OSError"            -> [next |-> "fallback", value |-> FALSE]
      [] check_call(outcome) = "CalledProcessError" -> [next |-> "return", value |-> FALSE]

TelegramPrimary ==
    /\ pc = "alert"
    /\ alert = "telegram"
    /\ nAlert' = nAlert + 1
    /\ \E outcome \in Outcomes, wrote \in BOOLEAN :
         /\ Spawn(<<TELEGRAM_SEND, message>> \o telegram_conf_args, outcome, wrote)
         /\ IF telegram_try(outcome).next = "fallback"
            THEN /\ pc' = "fallback"
                 /\ UNCHANGED <<success, ret, error>>
            ELSE Return(telegram_try(outcome).value)
    /\ UNCHANGED <<args, alert, command, excluded, headers, payload, event_name,
                   message, process_name, nRead, decoded>>

\* os.path.expanduser("~/...") for the user the listener runs as
expanduser(rest) == HOME \o rest

\* lines 88-90: the OSError handler of telegram(message). An exception raised
\* inside an except clause is not handled by the other except clauses of the
\* same try statement, so line 91 does not apply to line 89.
telegram_except(outcome) ==
    IF check_call(outcome) = "none"
    THEN [exc |-> "none", value |-> TRUE]
    ELSE [exc |-> check_call(outcome), value |-> FALSE]

TelegramFallback ==
    /\ pc = "fallback"
    /\ \E outcome \in Outcomes, wrote \in BOOLEAN :
         /\ Spawn(<<expanduser(LOCAL_BIN_TELEGRAM_SEND), message>> \o telegram_conf_args,
                  outcome, wrote)
         /\ IF telegram_except(outcome).exc = "none"
            THEN Return(telegram_except(outcome).value)
            ELSE Raise(telegram_except(outcome).exc)
    /\ UNCHANGED <<args, alert, command, excluded, headers, payload, event_name,
                   message, process_name, nRead, decoded, nAlert>>

\* the two branches of lines 76-79 exchanged
ResultToken_swapped(ok) == IF ok THEN RESULT_FAIL ELSE RESULT_OK

\* lines 76-79: the token of listener.ok() or listener.fail()
ResultToken(ok) == IF ok THEN RESULT_OK ELSE RESULT_FAIL

\* a loop that is left after a failed dispatch
NextIteration_break(ok) == IF ok THEN "loop" ELSE "returned"

\* line 61: while True, the loop is re-entered whatever the result was
NextIteration(ok) == "loop"

\* a result step that also mutes the process whose alert failed
Result_mute ==
    /\ pc = "result"
    /\ out' = Append(out, EngineWrite(ResultToken(success)))
    /\ pc' = NextIteration(success)
    /\ excluded' = IF success THEN excluded ELSE excluded \cup {process_name}
    /\ UNCHANGED <<args, alert, command, headers, payload, event_name, success,
                   message, process_name, nRead, decoded, calls, nAlert, ret, error>>

\* lines 76-79: listener.ok() or listener.fail(), each one write and a flush
Result ==
    /\ pc = "result"
    /\ out' = Append(out, EngineWrite(ResultToken(success)))
    /\ pc' = NextIteration(success)
    /\ UNCHANGED <<args, alert, command, excluded, headers, payload, event_name, success,
                   message, process_name, nRead, decoded, calls, nAlert, ret, error>>

Next ==
    \/ ParseArgs
    \/ Ready
    \/ Wait
    \/ Turn
    \/ Send
    \/ TelegramPrimary
    \/ TelegramFallback
    \/ Result

Spec == Init /\ [][Next]_vars

\* ------------------------------------------------------ derived quantities
IsEngine(w) == w.by = "engine"

\* what the engine itself wrote, in order
EngineOut == SelectSeq(out, IsEngine)

IsReady(w) == w = EngineWrite(READY_FOR_EVENTS_TOKEN)

IsResult(w) == w \in {EngineWrite(RESULT_OK), EngineWrite(RESULT_FAIL)}

NReady == Len(SelectSeq(out, IsReady))

NResults == Len(SelectSeq(out, IsResult))

\* the result token written for the event read last, once it is written: the
\* last result signal on the stream
LastVerb ==
    LET results == SelectSeq(out, IsResult) IN results[Len(results)].data

\* an event has been read and its turn has ended with a result signal
TurnAcknowledged == nRead > 0 /\ pc \in {"loop", "wait", "raised"} /\ NResults = nRead

\* an exception left main() after an event was read and before its result
TurnCrashed == pc = "raised" /\ nRead > 0 /\ NResults < nRead

\* the headers and ghosts of the current turn are those of an event whose
\* body has run (to its end or to an exception)
TurnRan == nRead > 0 /\ pc # "turn"

HasPrefix == K_eventname \in DOMAIN headers /\ startswith(headers[K_eventname], s)

LacksPrefix == K_eventname \in DOMAIN headers /\ ~startswith(headers[K_eventname], s)

\* the payload parses into pairs and names a process
Decodable(pl) == get_headers(pl).exc = "none" /\ K_processname \in DOMAIN get_headers(pl).dict

ProcessNameOf(pl) == get_headers(pl).dict[K_processname]

Excluded == HasPrefix /\ Decodable(payload) /\ ProcessNameOf(payload) \in excluded

\* --------------------------------------------------------------- claims

\* C1: every event returned by listener.wait() gets exactly one result signal
\* before the engine reads another event or stops: never more results than
\* events, and none missing once the engine is between turns or has ended
\* (for an event that carries an eventname header).
C1_ExactlyOneResultPerEvent ==
    /\ NResults <= nRead
    /\ (pc \in {"loop", "wait", "raised", "returned"} /\ K_eventname \in DOMAIN headers)
           => NResults = nRead

\* C2: what the engine writes is READY, result, READY, result, ... starting
\* with READY, and whenever N events have been processed (the engine is back at
\* the top of the loop) it has written exactly N READY and N result signals.
C2_StrictAlternation ==
    /\ \A i \in 1..Len(EngineOut) :
           IF i % 2 = 1 THEN IsReady(EngineOut[i]) ELSE IsResult(EngineOut[i])
    /\ pc = "loop" => NReady = nRead /\ NResults = nRead

C2_Witness ==
    /\ pc = "loop"
    /\ nRead = 2
    /\ Len(EngineOut) = 4
    /\ EngineOut[2].data = RESULT_FAIL
    /\ EngineOut[4].data = RESULT_OK

\* C3: the verb of a result signal is FAIL exactly when the dispatcher was
\* invoked for the event and returned false; and an event that lacks the
\* prefix, or whose process is excluded, or whose dispatch returned true, is
\* acknowledged with OK (its turn neither ends in an exception nor in FAIL).
C3_VerbDecision ==
    /\ TurnAcknowledged =>
           (LastVerb = RESULT_FAIL <=> (nAlert = 1 /\ ret = "false"))
    /\ (TurnRan /\ (LacksPrefix \/ Excluded \/ ret = "true")) =>
           /\ ~TurnCrashed
           /\ pc = "result" => success
           /\ TurnAcknowledged => LastVerb = RESULT_OK

C3_Witness ==
    /\ TurnAcknowledged
    /\ pc = "loop"
    /\ nRead = 2
    /\ LastVerb = RESULT_FAIL
    /\ EngineOut[2].data = RESULT_OK
    /\ nAlert = 1
    /\ ret = "false"

\* C4: the external-command dispatcher (send) returns a boolean for every
\* outcome of the subprocess and never raises into the loop; a failing
\* outcome leads to a FAIL result.
C4_SendNeverRaises ==
    (alert = "send" /\ calls # <<>> /\ calls[Len(calls)].outcome # "exit0") =>
        /\ ret = "false"
        /\ ~TurnCrashed

\* C5: in the chat-relay variant a non-zero exit of the relay is reported as
\* failure (false) whether it ran from the primary or the fallback location.
C5_TelegramNonZeroIsFalse ==
    (alert = "telegram" /\ calls # <<>> /\ calls[Len(calls)].outcome = "nonzero") =>
        /\ ret = "false"
        /\ ~TurnCrashed

\* C6: a transition event whose payload cannot be decoded is nothing to
\* alert: no dispatch, the listener does not terminate, OK is written.
C6_UndecodableIsOk ==
    (TurnRan /\ HasPrefix /\ ~Decodable(payload)) =>
        /\ nAlert = 0
        /\ ~TurnCrashed
        /\ TurnAcknowledged => LastVerb = RESULT_OK

\* C7: an event whose eventname lacks the PROCESS_STATE_ prefix has its
\* payload left undecoded, no dispatch and no subprocess, and is acknowledged
\* with OK.
C7_NonTransitionIsOk ==
    (TurnRan /\ LacksPrefix) =>
        /\ ~decoded
        /\ nAlert = 0
        /\ calls = <<>>
        /\ pc \in {"result", "loop", "wait", "raised"}
        /\ ~TurnCrashed
        /\ pc = "result" => success
        /\ TurnAcknowledged => LastVerb = RESULT_OK

C7_Witness ==
    /\ pc = "loop"
    /\ nRead = 2
    /\ LacksPrefix
    /\ headers[K_eventname] = N_NOUNDERSCORE
    /\ payload = P_WEB
    /\ EngineOut[2].data = RESULT_FAIL
    /\ LastVerb = RESULT_OK

\* C8: a decoded transition whose process name is in the exclusion set is
\* never dispatched and is acknowledged with OK, for either backend and with
\* the hostname flag on or off.
C8_ExcludedIsOk ==
    (TurnRan /\ Excluded) =>
        /\ decoded
        /\ nAlert = 0
        /\ calls = <<>>
        /\ pc \in {"result", "loop", "wait", "raised"}
        /\ ~TurnCrashed
        /\ pc = "result" => success
        /\ TurnAcknowledged => LastVerb = RESULT_OK

C8_Witness ==
    /\ pc = "loop"
    /\ Excluded
    /\ ProcessNameOf(payload) = <<"d", "b">>
    /\ alert = "send"
    /\ args.show_hostname
    /\ LastVerb = RESULT_OK

C8_WitnessTelegram ==
    /\ pc = "loop"
    /\ Excluded
    /\ alert = "telegram"
    /\ ~args.show_hostname
    /\ LastVerb = RESULT_OK

\* C9: only the engine writes to the control output stream: nothing but its
\* READY and result tokens ever appears on it.
C9_OnlyEngineWrites ==
    \A i \in 1..Len(out) : IsEngine(out[i])

\* C10: one chat-relay dispatch starts at most two subprocesses: the primary
\* relay command first, and the fallback path exactly once when, and only
\* when, the primary could not be executed (OSError); never after the primary
\* ran and exited non-zero, and the fallback is never retried.
C10_OneFallback ==
    alert = "telegram" =>
        /\ Len(calls) <= 2
        /\ calls # <<>> => calls[1].argv[1] = TELEGRAM_SEND
        /\ Len(calls) = 2 =>
               /\ calls[1].outcome = "OSError"
               /\ calls[2].argv[1] = expanduser(LOCAL_BIN_TELEGRAM_SEND)
        /\ (Len(calls) = 1 /\ calls[1].outcome = "OSError") <=> pc = "fallback"
        /\ (calls # <<>> /\ calls[1].outcome # "OSError") => Len(calls) = 1
        /\ nAlert <= 1

C10_Witness ==
    /\ alert = "telegram"
    /\ nRead = 2
    /\ Len(calls) = 2
    /\ calls[2].outcome = "exit0"
    /\ pc = "loop"
    /\ LastVerb = RESULT_OK

C10_WitnessNonZero ==
    /\ alert = "telegram"
    /\ Len(calls) = 1
    /\ calls[1].outcome = "nonzero"
    /\ pc = "loop"

\* the verb one turn owes, from this turn's event, the configuration and the
\* outcome of this turn's subprocesses alone
ExpectedVerb ==
    IF LacksPrefix \/ Excluded THEN RESULT_OK
    ELSE IF calls # <<>> /\ calls[Len(calls)].outcome = "exit0" THEN RESULT_OK
    ELSE RESULT_FAIL

Results == SelectSeq(out, IsResult)

UsableLen(v) == v # <<>> /\ \A i \in 1..Len(v) : v[i] \in Digits

\* header lines of the input whose len header is missing or not a number
BadLenLines == {L_EMPTY, L_NOLEN, L_BADLEN, L_NOPAIR}

\* C12: broken framing is fatal. A header line without a usable len never
\* yields an event: listener.wait() raises, and the process ends with nothing
\* written and nothing dispatched in that step. An event without an eventname
\* header ends the process at line 63 the same way. Once ended, the process
\* takes no further step (no result, no READY).
C12_FramingInv ==
    /\ \A ev \in StdinEvents : ev.line \in BadLenLines => wait(ev).exc # "none"
    /\ nRead > 0 => (K_len \in DOMAIN headers /\ UsableLen(headers[K_len]))
    /\ (TurnRan /\ K_eventname \notin DOMAIN headers) =>
           (pc = "raised" /\ nAlert = 0 /\ calls = <<>> /\ NResults = nRead - 1)

C12_FramingStep ==
    /\ pc # "raised"
    /\ (pc = "wait" /\ pc' = "raised") =>
           (out' = out /\ calls' = calls /\ nAlert' = nAlert /\ nRead' = nRead)
    /\ (pc = "turn" /\ K_eventname \notin DOMAIN headers) =>
           (pc' = "raised" /\ out' = out /\ calls' = calls /\ nAlert' = nAlert)

C12_FramingIsFatal == []C12_FramingInv /\ [][C12_FramingStep]_vars

C12_Witness ==
    /\ pc = "raised"
    /\ error = "ValueError"
    /\ nRead = 1
    /\ NReady = 2
    /\ NResults = 1

C12_WitnessNoEventname ==
    /\ pc = "raised"
    /\ nRead = 2
    /\ K_eventname \notin DOMAIN headers
    /\ error = "KeyError"

\* C13: without --telegram and without a command the process raises before
\* the loop: nothing is ever written and no event is read. With --configure
\* the loop is never entered either.
C13_RefusesToStart ==
    /\ (~args.configure /\ ~args.telegram /\ args.command = None) =>
           /\ pc \in {"main", "raised"}
           /\ alert = "unbound"
           /\ out = <<>>
           /\ nRead = 0
           /\ calls = <<>>
    /\ args.configure =>
           /\ pc \in {"main", "returned", "raised"}
           /\ alert = "unbound"
           /\ out = <<>>
           /\ nRead = 0
           /\ calls = <<>>

C13_Witness ==
    /\ pc = "raised"
    /\ error = "Exception"
    /\ ~args.configure
    /\ ~args.telegram
    /\ args.command = None
    /\ out = <<>>

C13_WitnessConfigure ==
    /\ pc = "returned"
    /\ args.configure
    /\ args.telegram

\* the message a subprocess of this turn was given on its command line
PassedMessage(c) == IF alert = "send" THEN c.argv[Len(c.argv)] ELSE c.argv[2]

\* the text owed for the event of this turn
OwedMessage ==
    (IF args.show_hostname THEN <<"h", "1", ":", " ">> ELSE <<>>)
        \o ProcessNameOf(payload) \o HAS_ENTERED_STATE
        \o lower(SubSeq(headers[K_eventname], Len(s) + 1, Len(headers[K_eventname])))

MSG_WEB_EXITED ==
    <<"w", "e", "b", " ", "h", "a", "s", " ", "e", "n", "t", "e", "r", "e", "d", " ", "s", "t", "a", "t", "e", " ", "e", "x", "i", "t", "e", "d">>

MSG_H1_DB_FATAL ==
    <<"h", "1", ":", " ", "d", "b", " ", "h", "a", "s", " ", "e", "n", "t", "e", "r", "e", "d", " ", "s", "t", "a", "t", "e", " ", "f", "a", "t", "a", "l">>

\* C14: the message given to the dispatcher for a decoded, not excluded
\* transition is process_name + " has entered state " + new_state, new_state
\* being the eventname without its prefix and lowercased; it starts with
\* hostname + ": " exactly when the hostname flag is set.
C14_MessageText ==
    /\ pc \in {"alert", "fallback"} => message = OwedMessage
    /\ \A i \in 1..Len(calls) :
           /\ PassedMessage(calls[i]) = OwedMessage
           /\ (headers[K_eventname] = N_EXITED /\ payload = P_WEB /\ ~args.show_hostname)
                  => PassedMessage(calls[i]) = MSG_WEB_EXITED
           /\ (headers[K_eventname] = N_FATAL /\ payload = P_DB /\ args.show_hostname)
                  => PassedMessage(calls[i]) = MSG_H1_DB_FATAL
           /\ args.show_hostname <=> startswith(PassedMessage(calls[i]), <<"h", "1", ":", " ">>)

C14_Witness ==
    /\ pc = "loop"
    /\ nRead = 2
    /\ Len(calls) = 1
    /\ alert = "send"
    /\ calls[1].argv = << <<"m", "a", "i", "l">>, <<"-", "s">>, MSG_H1_DB_FATAL >>

C14_WitnessPlain ==
    /\ Len(calls) = 2
    /\ calls[2].argv = <<expanduser(LOCAL_BIN_TELEGRAM_SEND), MSG_WEB_EXITED>> \o telegram_conf_args

\* C15: the dispatcher is called at most once per event and only between
\* the read of the event and the write of its result: never before the first
\* event, never between a result and the next read, and no result is written
\* while a dispatch is in progress.
C15_DispatchInv ==
    /\ nAlert <= 1
    /\ nRead = 0 => (nAlert = 0 /\ calls = <<>>)
    /\ pc \in {"alert", "fallback"} => (nRead >= 1 /\ NResults = nRead - 1 /\ NReady = nRead)
    /\ pc = "fallback" => nAlert = 1

C15_DispatchStep ==
    /\ (nAlert' > nAlert \/ Len(calls') > Len(calls)) =>
           /\ pc \in {"alert", "fallback"}
           /\ nRead' = nRead
           /\ NResults = nRead - 1
           /\ NResults' = NResults
    /\ Len(SelectSeq(out', IsResult)) > NResults =>
           /\ pc = "result"
           /\ pc' \notin {"alert", "fallback"}
           /\ calls' = calls
           /\ nAlert' = nAlert

C15_OneDispatchPerTurn == []C15_DispatchInv /\ [][C15_DispatchStep]_vars

C15_Witness ==
    /\ pc = "fallback"
    /\ nRead = 2
    /\ nAlert = 1
    /\ Results = <<EngineWrite(RESULT_FAIL)>>

\* C16: the backend is chosen before the first turn and serves every event.
\* With --telegram (with or without a command) every subprocess is the relay
\* command and the user command is never run; with a command only, every
\* subprocess is the user command and the relay is never run.
C16_BackendInv ==
    /\ pc \notin {"main", "returned"} /\ alert # "unbound" =>
           alert = (IF args.telegram THEN "telegram" ELSE "send")
    /\ \A i \in 1..Len(calls) :
           IF args.telegram
           THEN /\ calls[i].argv[1] \in {TELEGRAM_SEND, expanduser(LOCAL_BIN_TELEGRAM_SEND)}
                /\ SubSeq(calls[i].argv, 3, 4) = telegram_conf_args
           ELSE /\ args.command = UserCommand
                /\ SubSeq(calls[i].argv, 1, 2) = << <<"m", "a", "i", "l">>, <<"-", "s">> >>
                /\ Len(calls[i].argv) = 3

C16_BackendStep == pc # "main" => (alert' = alert /\ command' = command)

C16_BackendFixed == []C16_BackendInv /\ [][C16_BackendStep]_vars

C16_Witness ==
    /\ args.telegram
    /\ args.command = UserCommand
    /\ nRead = 2
    /\ Results = <<EngineWrite(RESULT_FAIL), EngineWrite(RESULT_OK)>>
    /\ Len(calls) = 2
    /\ pc = "loop"

C16_WitnessCommandOnly ==
    /\ ~args.telegram
    /\ nRead = 2
    /\ Results = <<EngineWrite(RESULT_FAIL), EngineWrite(RESULT_FAIL)>>
    /\ calls # <<>>

\* C17: in every reachable state, also after main() was left on an uncaught
\* exception, the engine has written as many READY as result signals or one
\* more, and never more results than events read.
C17_ReadyResultBalance ==
    /\ NReady - NResults \in {0, 1}
    /\ NResults <= nRead
    /\ nRead <= NReady

C17_Witness ==
    /\ pc = "raised"
    /\ ret = "raised"
    /\ nRead = 2
    /\ NReady = 2
    /\ NResults = 1

\* C18: turns are independent. The verb written for an event is the one owed
\* by that event, the configuration and that turn's backend outcome
\* (ExpectedVerb reads nothing else), whatever the earlier turns were: the
\* success flag is True again before any dispatch of the turn, so an earlier
\* FAIL or OK does not reach a later verb.
C18_TurnsIndependent ==
    /\ TurnAcknowledged => LastVerb = ExpectedVerb
    /\ pc = "result" => (success <=> ExpectedVerb = RESULT_OK)
    /\ pc \in {"alert", "fallback"} => success

C18_Witness ==
    /\ pc = "loop"
    /\ nRead = 2
    /\ Excluded
    /\ Results = <<EngineWrite(RESULT_FAIL), EngineWrite(RESULT_OK)>>

C18_WitnessFailAfterOk ==
    /\ pc = "loop"
    /\ nRead = 2
    /\ Results = <<EngineWrite(RESULT_OK), EngineWrite(RESULT_FAIL)>>

\* C19: no turn changes the startup configuration: once the loop is entered
\* the backend, the bound command, the exclusion set and the arguments (the
\* hostname flag among them) stay what the startup made them; the hostname
\* string is read once at line 47.
C19_ConfigInv ==
    (pc \notin {"main", "returned"} /\ alert # "unbound") =>
        /\ excluded = (IF args.exclude = None THEN {}
                       ELSE IF args.exclude = X_WEB THEN {<<"w", "e", "b">>}
                       ELSE {<<"w", "e", "b">>, <<"d", "b">>})
        /\ alert \in {"telegram", "send"}
        /\ alert = "send" => command = << <<"m", "a", "i", "l">>, <<"-", "s">> >>
        /\ alert = "telegram" => command = None

C19_ConfigStep ==
    /\ args' = args
    /\ pc # "main" => (alert' = alert /\ command' = command /\ excluded' = excluded)

C19_ConfigUnchanged == []C19_ConfigInv /\ [][C19_ConfigStep]_vars

C19_Witness ==
    /\ pc = "loop"
    /\ nRead = 2
    /\ args.exclude = X_WEB
    /\ args.show_hostname
    /\ Results = <<EngineWrite(RESULT_OK), EngineWrite(RESULT_FAIL)>>
    /\ excluded = {<<"w", "e", "b">>}

====
